---- MODULE Spec2Model ----
(***************************************************************************)
(* Model of the CrudOperations single-page application: the Session Store  *)
(* (state/store.js), the Auth Gateway predicates (services/authService.js),*)
(* the hash router with its route guards (router/router.js) and the        *)
(* application start-up (app.js).                                          *)
(*                                                                         *)
(* JavaScript values are records tagged with their type.  Texts (the URL   *)
(* hash, the content of the localStorage slot) are sequences of tokens, so *)
(* that split('?'), JSON.stringify and JSON.parse are computed, not        *)
(* assumed.                                                                *)
(***************************************************************************)
EXTENDS Integers, Sequences, FiniteSets, TLC

VARIABLES
    user,         \* Store.state.user
    slot,         \* localStorage item 'currentUser'
    hash,         \* window.location.hash without the leading '#'
    appContent,   \* what #app displays (the view whose output it holds)
    routerReady,  \* Router.init() has registered its listeners
    pending,      \* 'load' / 'hashchange' events queued for handleRoute
    lastCall,     \* the operation executed by the last step and its result
    users,        \* the backend's /users collection
    inflight,     \* the auth call awaiting its API response
    session,      \* the argument of the latest Store.setUser() not yet cleared
    students,     \* the backend's /students collection
    serial,       \* how many records the backend has created under /students
    lists,        \* Store.state.students and Store.state.payments
    dom,          \* content of the elements with an id inside #app
    tasks         \* the view timers and handlers awaiting an API response

vars == <<user, slot, hash, appContent, routerReady, pending, lastCall,
          users, inflight, session, students, serial, lists, dom, tasks>>

----------------------------------------------------------------------------
(* Bounds *)

MaxPending == 2   \* navigation events that may wait in the event queue
MaxQueries == 1   \* '?...' suffixes appended to a requested path
MaxUsers == 3     \* records the backend's /users collection may hold
MaxTasks == 2     \* view timers and handlers that may await a reply at once
MaxStudents == 4  \* records the backend's /students collection may hold

----------------------------------------------------------------------------
(* JavaScript values *)

JNull == [type |-> "null"]
JNum(n) == [type |-> "number", val |-> n]
JBool(b) == [type |-> "boolean", val |-> b]
JObj(p) == [type |-> "object", props |-> p]
JArr(a) == [type |-> "array", items |-> a]
JUndefined == [type |-> "undefined"]
JStr(s) == [type |-> "string", val |-> s]

\* ToBoolean, as used by `if (x)`, `!x` and `x && y`
Truthy(v) ==
    CASE v.type \in {"null", "undefined"} -> FALSE
      [] v.type = "boolean" -> v.val
      [] v.type = "number" -> v.val /= "0"
      [] OTHER -> TRUE

\* v.role === 'admin' (property access on a non-null value)
RoleIsAdmin(v) ==
    /\ v.type = "object"
    /\ "role" \in DOMAIN v.props
    /\ v.props["role"] = "admin"

AdminP == JObj([id |-> "1", name |-> "Karish Maskon", email |-> "admin@crudops.com",
                password |-> "admin123", role |-> "admin"])
UserP == JObj([id |-> "2", name |-> "User", email |-> "user@crudops.com",
               password |-> "user123", role |-> "user"])
Principals == {AdminP, UserP}

----------------------------------------------------------------------------
(* JSON texts: token sequences *)

KeyOrder == <<"id", "name", "email", "password", "role">>

RECURSIVE StringifyProps(_, _)
StringifyProps(p, i) ==
    IF i > Len(KeyOrder) THEN <<>>
    ELSE (IF KeyOrder[i] \in DOMAIN p
          THEN <<KeyOrder[i], p[KeyOrder[i]]>> ELSE <<>>)
         \o StringifyProps(p, i + 1)

\* JSON.stringify(v)
JSONstringify(v) ==
    CASE v.type = "null" -> <<"null">>
      [] v.type = "number" -> <<v.val>>
      [] v.type = "boolean" -> <<IF v.val THEN "true" ELSE "false">>
      [] OTHER -> <<"{">> \o StringifyProps(v.props, 1) \o <<"}">>

NumberTokens == {"0", "5"}

IsObjectText(t) ==
    /\ Len(t) >= 2
    /\ Len(t) % 2 = 0
    /\ t[1] = "{"
    /\ t[Len(t)] = "}"
    /\ \A i \in 1..((Len(t) - 2) \div 2) :
          /\ t[2 * i] \notin {"{", "}"}
          /\ t[2 * i + 1] \notin {"{", "}"}
          /\ \A j \in 1..((Len(t) - 2) \div 2) : t[2 * j] = t[2 * i] => j = i

ObjectOfText(t) ==
    JObj([k \in {t[2 * i] : i \in 1..((Len(t) - 2) \div 2)} |->
            t[1 + 2 * (CHOOSE i \in 1..((Len(t) - 2) \div 2) : t[2 * i] = k)]])

\* JSON.parse(t): a value, or a SyntaxError
JSONparse(t) ==
    CASE t = <<"null">> -> [threw |-> FALSE, value |-> JNull]
      [] Len(t) = 1 /\ t[1] \in NumberTokens ->
            [threw |-> FALSE, value |-> JNum(t[1])]
      [] IsObjectText(t) -> [threw |-> FALSE, value |-> ObjectOfText(t)]
      [] OTHER -> [threw |-> TRUE, value |-> JNull]

\* response.json() of a body the backend serialized: an array of records is
\* carried as the sequence of its records' texts
JSONparseBody(body) ==
    IF body.type = "array"
    THEN JArr([i \in 1..Len(body.items) |-> JSONparse(body.items[i]).value])
    ELSE JSONparse(body.text).value

\* The backend's serialization of a value into a response body
JSONbody(v) ==
    IF v.type = "array"
    THEN [type |-> "array",
          items |-> [i \in 1..Len(v.items) |-> JSONstringify(v.items[i])]]
    ELSE [type |-> "text", text |-> JSONstringify(v)]

----------------------------------------------------------------------------
(* localStorage slot 'currentUser' *)

NoItem == [has |-> FALSE]
Item(t) == [has |-> TRUE, text |-> t]

\* Texts that are not a serialized principal
MalformedTexts ==
    { <<"{">>,                        \* truncated JSON
      <<"not", "json">>,              \* not JSON at all
      <<"null">>,                     \* JSON null
      <<"5">>,                        \* a JSON number
      <<"{", "name", "Bob", "}">> }   \* a JSON object without id / role

InitialSlots ==
    {NoItem, Item(<<>>)}
      \cup {Item(t) : t \in MalformedTexts}
      \cup {Item(JSONstringify(p)) : p \in Principals}

----------------------------------------------------------------------------
(* Session Store *)

StoreInit_parsedUserDiscarded(u, s) ==
    IF s.has /\ s.text /= <<>>
    THEN LET r == JSONparse(s.text) IN
         [user |-> u, threw |-> r.threw \/ u.type = "null"]
    ELSE [user |-> u, threw |-> FALSE]

\* Store.init(): the state it leaves and whether it raised an error.
\* u is Store.state.user before the call, s the persisted slot.
StoreInit(u, s) ==
    IF s.has /\ s.text /= <<>>
    THEN LET r == JSONparse(s.text) IN
         IF r.threw THEN [user |-> u, threw |-> TRUE]
         ELSE [user |-> r.value, threw |-> (r.value.type = "null")]
    ELSE [user |-> u, threw |-> FALSE]

StoreSetUser_previousUserPersisted(u, p) ==
    [user |-> p, slot |-> Item(JSONstringify(u))]

StoreSetUser_memoryNotUpdated(u, p) ==
    [user |-> u, slot |-> Item(JSONstringify(p))]

\* Store.setUser(p), from a store holding u
StoreSetUser(u, p) ==
    [user |-> p, slot |-> Item(JSONstringify(p))]

\* Store.getUser()
StoreGetUser(u) == u

StoreClearUser_slotKept(s) == [user |-> JNull, slot |-> s]

\* Store.clearUser(), with persisted slot s
StoreClearUser(s) == [user |-> JNull, slot |-> NoItem]

----------------------------------------------------------------------------
(* Auth Gateway predicates *)

isAuthenticated_alwaysTrue(u) == TRUE

\* authService.isAuthenticated()
isAuthenticated(u) == StoreGetUser(u) /= JNull

isAdmin_anyUser(u) ==
    IF ~Truthy(StoreGetUser(u)) THEN StoreGetUser(u) ELSE JBool(TRUE)

\* authService.isAdmin(): `user && user.role === 'admin'`
isAdmin(u) ==
    IF ~Truthy(StoreGetUser(u)) THEN StoreGetUser(u)
    ELSE JBool(RoleIsAdmin(StoreGetUser(u)))

----------------------------------------------------------------------------
(* Router *)

RECURSIVE Join(_)
Join(s) == IF s = <<>> THEN "" ELSE Head(s) \o Join(Tail(s))

\* String.prototype.split('?')[0]
RECURSIVE SplitQ0(_)
SplitQ0(s) ==
    IF s = <<>> \/ Head(s) = "?" THEN <<>>
    ELSE <<Head(s)>> \o SplitQ0(Tail(s))

\* window.location.hash: '' for an empty fragment, '#...' otherwise
LocationHash(h) == IF h = <<>> THEN <<>> ELSE <<"#">> \o h

\* String.prototype.slice(1)
Slice1(s) == IF s = <<>> THEN <<>> ELSE Tail(s)

\* Router.routes
routes ==
    [p \in {"/", "/login", "/register", "/dashboard", "/students",
            "/payments", "/students/create", "/students/edit", "/not-found"}
       |-> CASE p \in {"/", "/login"} -> "LoginView"
             [] p = "/register" -> "RegisterView"
             [] p = "/dashboard" -> "DashboardView"
             [] p = "/students" -> "StudentsListView"
             [] p = "/payments" -> "PaymentsView"
             [] p = "/students/create" -> "CreateStudentView"
             [] p = "/students/edit" -> "EditStudentView"
             [] OTHER -> "NotFoundView"]

\* Keys that the object literal `routes` inherits from Object.prototype
InheritedKeys == {"constructor"}

protectedRoutes_paymentsMissing ==
    {"/dashboard", "/students", "/students/create", "/students/edit"}

protectedRoutes ==
    {"/dashboard", "/students", "/payments", "/students/create",
     "/students/edit"}

adminRoutes == {"/students/create", "/students/edit"}

\* const hash = window.location.hash.slice(1) || '/';
\* const path = hash.split('?')[0];
RoutePath(h) ==
    LET sliced == Slice1(LocationHash(h))
        hashStr == IF Join(sliced) = "" THEN <<"/">> ELSE sliced
    IN Join(SplitQ0(hashStr))

\* this.routes[path] || NotFoundView
RouteView(path) ==
    IF path \in DOMAIN routes THEN routes[path]
    ELSE IF path \in InheritedKeys THEN "Object"
    ELSE "NotFoundView"

NoRedirect == <<"none">>
NoView == "none"

Outcome(path, r, v) == [path |-> path, redirect |-> r, view |-> v]

handleRoute_roleCheckFirst(h, u) ==
    LET path == RoutePath(h) IN
    IF path \in adminRoutes /\ ~Truthy(isAdmin(u))
    THEN Outcome(path, <<"/not-found">>, NoView)
    ELSE IF path \in protectedRoutes /\ ~isAuthenticated(u)
    THEN Outcome(path, <<"/login">>, NoView)
    ELSE IF path \in {"/", "/login"} /\ isAuthenticated(u)
    THEN Outcome(path, <<"/dashboard">>, NoView)
    ELSE Outcome(path, NoRedirect, RouteView(path))

handleRoute_noReturnAfterLogin(h, u) ==
    LET path == RoutePath(h) IN
    IF path \in protectedRoutes /\ ~isAuthenticated(u)
    THEN Outcome(path, <<"/login">>, RouteView(path))
    ELSE IF path \in adminRoutes /\ ~Truthy(isAdmin(u))
    THEN Outcome(path, <<"/not-found">>, NoView)
    ELSE IF path \in {"/", "/login"} /\ isAuthenticated(u)
    THEN Outcome(path, <<"/dashboard">>, NoView)
    ELSE Outcome(path, NoRedirect, RouteView(path))

handleRoute_rootNotRedirected(h, u) ==
    LET path == RoutePath(h) IN
    IF path \in protectedRoutes /\ ~isAuthenticated(u)
    THEN Outcome(path, <<"/login">>, NoView)
    ELSE IF path \in adminRoutes /\ ~Truthy(isAdmin(u))
    THEN Outcome(path, <<"/not-found">>, NoView)
    ELSE IF path = "/login" /\ isAuthenticated(u)
    THEN Outcome(path, <<"/dashboard">>, NoView)
    ELSE Outcome(path, NoRedirect, RouteView(path))

handleRoute_rootViaLogin(h, u) ==
    LET path == RoutePath(h) IN
    IF path \in protectedRoutes /\ ~isAuthenticated(u)
    THEN Outcome(path, <<"/login">>, NoView)
    ELSE IF path \in adminRoutes /\ ~Truthy(isAdmin(u))
    THEN Outcome(path, <<"/not-found">>, NoView)
    ELSE IF path = "/" /\ isAuthenticated(u)
    THEN Outcome(path, <<"/login">>, NoView)
    ELSE IF path = "/login" /\ isAuthenticated(u)
    THEN Outcome(path, <<"/dashboard">>, NoView)
    ELSE Outcome(path, NoRedirect, RouteView(path))

\* Router.handleRoute() for location hash h and Store.state.user u:
\* the hash it sets (or none) and the view it renders (or none)
handleRoute(h, u) ==
    LET path == RoutePath(h) IN
    IF path \in protectedRoutes /\ ~isAuthenticated(u)
    THEN Outcome(path, <<"/login">>, NoView)
    ELSE IF path \in adminRoutes /\ ~Truthy(isAdmin(u))
    THEN Outcome(path, <<"/not-found">>, NoView)
    ELSE IF path \in {"/", "/login"} /\ isAuthenticated(u)
    THEN Outcome(path, <<"/dashboard">>, NoView)
    ELSE Outcome(path, NoRedirect, RouteView(path))

\* Router.render(view): app.innerHTML = view()
ViewOutput(v) == IF v = "Object" THEN "[object Object]" ELSE v

\* hashchange events fired by assigning window.location.hash
HashChangeEvents(old, new) == IF routerReady /\ new /= old THEN 1 ELSE 0

----------------------------------------------------------------------------
(* Backend /users collection and auth calls *)

\* The records of the documented test users
SeedUsers == <<AdminP, UserP>>

NoCall == [op |-> "none"]

\* The pieces of a string between the URL delimiters it contains
UrlTokens(str) ==
    CASE str = "p#q" -> <<"p", "#", "q">>
      [] str = "admin123#x" -> <<"admin123", "#", "x">>
      [] OTHER -> <<str>>

\* fetch(url): the fragment ('#' and what follows) is not sent to the server
RECURSIVE SentUrl(_)
SentUrl(s) ==
    IF s = <<>> \/ Head(s) = "#" THEN <<>>
    ELSE <<Head(s)>> \o SentUrl(Tail(s))

\* Tokens of s after the first '?' (the query string)
RECURSIVE AfterQ(_)
AfterQ(s) ==
    IF s = <<>> THEN <<>>
    ELSE IF Head(s) = "?" THEN Tail(s) ELSE AfterQ(Tail(s))

\* The query string split at '&'
RECURSIVE SplitAmp(_, _)
SplitAmp(s, cur) ==
    IF s = <<>> THEN <<cur>>
    ELSE IF Head(s) = "&" THEN <<cur>> \o SplitAmp(Tail(s), <<>>)
    ELSE SplitAmp(Tail(s), Append(cur, Head(s)))

ParamKey(p) == IF p = <<>> THEN "" ELSE p[1]
ParamValue(p) ==
    IF Len(p) >= 3 /\ p[2] = "=" THEN Join(SubSeq(p, 3, Len(p))) ELSE ""

\* json-server: GET /users?k=v&...  keeps the records whose field k equals v
\* exactly, for every parameter k that is a field of some record
ServerGetUsers(url, db) ==
    LET params == SplitAmp(AfterQ(url), <<>>)
        known(p) == \E i \in 1..Len(db) : ParamKey(p) \in DOMAIN db[i].props
        matches(r) ==
            \A j \in 1..Len(params) :
                known(params[j]) =>
                    /\ ParamKey(params[j]) \in DOMAIN r.props
                    /\ r.props[ParamKey(params[j])] = ParamValue(params[j])
    IN JArr(SelectSeq(db, matches))

NextId(db) ==
    CASE Len(db) = 2 -> "3" [] Len(db) = 3 -> "4" [] Len(db) = 4 -> "5"
      [] OTHER -> "6"

\* json-server: POST /users stores the JSON body under a new id
ServerPostUser(bodyText, db) ==
    LET body == JSONparse(bodyText).value
    IN JObj([k \in DOMAIN body.props \cup {"id"} |->
                IF k = "id" THEN NextId(db) ELSE body.props[k]])

\* HTTP replies
HttpResponse(status, statusText, body) ==
    [kind |-> "response", status |-> status, statusText |-> statusText,
     body |-> body]
NetworkFailure == [kind |-> "network"]
ServerError ==
    HttpResponse("500", "Internal Server Error", JSONbody(JObj(<<>>)))
NotFound == HttpResponse("404", "Not Found", JSONbody(JObj(<<>>)))

\* response.ok: status in 200..299
ResponseOk(reply) == reply.status \in {"200", "201"}

\* The rejection of fetch() on a transport failure
FetchTypeError == <<"TypeError:", "Failed", "to", "fetch">>

Returned(v) == [threw |-> FALSE, value |-> v]
Thrown(msg) == [threw |-> TRUE, error |-> msg]

\* The body of one apiService method: fetch, test response.ok, parse or throw
ApiRequest(verb, reply, value) ==
    IF reply.kind = "network" THEN Thrown(FetchTypeError)
    ELSE IF ~ResponseOk(reply)
    THEN Thrown(<<"Error", verb, "data:", reply.status, reply.statusText>>)
    ELSE Returned(value)

\* response.json()
ResponseJson(reply) ==
    IF reply.kind = "network" \/ ~ResponseOk(reply) THEN JUndefined
    ELSE JSONparseBody(reply.body)

apiGet_errorSwallowed(endpoint, reply) ==
    IF reply.kind = "network" \/ ~ResponseOk(reply) THEN Returned(JUndefined)
    ELSE Returned(ResponseJson(reply))

\* apiService.get(endpoint)
apiGet(endpoint, reply) == ApiRequest("fetching", reply, ResponseJson(reply))

\* apiService.post(endpoint, data)
apiPost(endpoint, reply) == ApiRequest("posting", reply, ResponseJson(reply))

\* apiService.put(endpoint, data)
apiPut(endpoint, reply) == ApiRequest("updating", reply, ResponseJson(reply))

apiDelete_statusIgnored(endpoint, reply) ==
    IF reply.kind = "network" THEN Thrown(FetchTypeError)
    ELSE Returned(JBool(TRUE))

\* apiService.delete(endpoint)
apiDelete(endpoint, reply) == ApiRequest("deleting", reply, JBool(TRUE))

----------------------------------------------------------------------------
(* Auth Gateway operations *)

MsgInvalidCredentials == "Credenciales inválidas"
MsgLoginError == "Error al iniciar sesión. Por favor intenta de nuevo."
MsgEmailTaken == "El email ya está registrado"
MsgRegisterError == "Error al registrar usuario. Por favor intenta de nuevo."

Success(u) == [success |-> TRUE, user |-> u]
Failure(m) == [success |-> FALSE, message |-> m]

\* `/users?email=${email}&password=${password}`
LoginUrl(email, password) ==
    <<"/users", "?", "email", "=">> \o UrlTokens(email)
        \o <<"&", "password", "=">> \o UrlTokens(password)

\* `/users?email=${userData.email}`
RegisterCheckUrl(email) == <<"/users", "?", "email", "=">> \o UrlTokens(email)

login_sameMessage(email, password, reply, u, s) ==
    LET got == apiGet(LoginUrl(email, password), reply) IN
    IF got.threw
    THEN [result |-> Failure(MsgInvalidCredentials), user |-> u, slot |-> s]
    ELSE IF Len(got.value.items) > 0
    THEN LET st == StoreSetUser(u, got.value.items[1]) IN
         [result |-> Success(got.value.items[1]),
          user |-> st.user, slot |-> st.slot]
    ELSE [result |-> Failure(MsgInvalidCredentials), user |-> u, slot |-> s]

\* authService.login(email, password) once the API reply is in: its result
\* and the Session Store it leaves (u, s: the store before)
login(email, password, reply, u, s) ==
    LET got == apiGet(LoginUrl(email, password), reply) IN
    IF got.threw
    THEN [result |-> Failure(MsgLoginError), user |-> u, slot |-> s]
    ELSE IF Len(got.value.items) > 0
    THEN LET st == StoreSetUser(u, got.value.items[1]) IN
         [result |-> Success(got.value.items[1]),
          user |-> st.user, slot |-> st.slot]
    ELSE [result |-> Failure(MsgInvalidCredentials), user |-> u, slot |-> s]

RegisterBody_roleNotDefaulted(userData) == JObj(userData)

\* { ...userData, role: userData.role || 'user' }
RegisterBody(userData) ==
    JObj([k \in DOMAIN userData \cup {"role"} |->
            IF k = "role"
            THEN (IF "role" \in DOMAIN userData /\ userData["role"] /= ""
                  THEN userData["role"] ELSE "user")
            ELSE userData[k]])

\* authService.register, first round trip: the existing-email check.
\* proceed: the POST is issued; otherwise result is what register returns
registerCheck(userData, reply) ==
    LET got == apiGet(RegisterCheckUrl(userData["email"]), reply) IN
    IF got.threw
    THEN [proceed |-> FALSE, result |-> Failure(MsgRegisterError)]
    ELSE IF Len(got.value.items) > 0
    THEN [proceed |-> FALSE, result |-> Failure(MsgEmailTaken)]
    ELSE [proceed |-> TRUE, result |-> Failure("")]

\* authService.register, second round trip: the POST and Store.setUser
registerCreate(userData, reply, u, s) ==
    LET got == apiPost(<<"/users">>, reply) IN
    IF got.threw
    THEN [result |-> Failure(MsgRegisterError), user |-> u, slot |-> s]
    ELSE LET st == StoreSetUser(u, got.value) IN
         [result |-> Success(got.value), user |-> st.user, slot |-> st.slot]

logout_memoryKept(u, s) ==
    [user |-> u, slot |-> StoreClearUser(s).slot, hash |-> <<"/login">>]

\* authService.logout(): Store.clearUser() and window.location.hash = '#/login'
logout(u, s) ==
    [user |-> StoreClearUser(s).user, slot |-> StoreClearUser(s).slot,
     hash |-> <<"/login">>]

\* String.prototype.toLowerCase on the model's emails
toLowerCase(str) ==
    CASE str = "Admin@crudops.com" -> "admin@crudops.com"
      [] str = "Ana@crudops.com" -> "ana@crudops.com"
      [] str = "Luis@crudops.com" -> "luis@crudops.com"
      [] OTHER -> str

----------------------------------------------------------------------------
(* Inputs of the auth forms *)

Credentials ==
    { <<"admin@crudops.com", "admin123">>,
      <<"admin@crudops.com", "wrong">>,
      <<"admin@crudops.com", "admin123#x">>,
      <<"ana@crudops.com", "p#q">> }

Registrations ==
    { [name |-> "Ana", email |-> "Admin@crudops.com", password |-> "ana123",
       role |-> "user"],
      [name |-> "Ana", email |-> "admin@crudops.com", password |-> "ana123",
       role |-> "user"],
      [name |-> "Ana", email |-> "ana@crudops.com", password |-> "p#q"],
      [name |-> "Ana", email |-> "ana@crudops.com", password |-> "ana123",
       role |-> "admin"] }

\* What the network and the backend may answer to a request
ReplyKinds == {"ok", "status", "network"}

----------------------------------------------------------------------------
(* Views: the elements they render and the timers they start *)

\* The records json-server serves under /students and /payments
SeedStudents ==
    << JObj([id |-> "5", name |-> "Luis", email |-> "luis@crudops.com"]),
       JObj([id |-> "a7", name |-> "Eva", email |-> "eva@crudops.com"]) >>
SeedPayments == << JObj([id |-> "1", name |-> "Tuition"]) >>

\* Store.state.students / Store.state.payments of a freshly loaded page
EmptyLists == [students |-> JArr(<<>>), payments |-> JArr(<<>>)]

\* The ids of the elements inside the markup a view returns
Elements(view) ==
    CASE view = "DashboardView" ->
            {"coursesCount", "studentsCount", "paymentsTotal", "usersCount",
             "studentsTableContainer"}
      [] view = "StudentsListView" -> {"studentsTableContainer"}
      [] view = "PaymentsView" -> {"paymentsTableContainer"}
      [] view = "CreateStudentView" -> {"createStudentForm"}
      [] view = "EditStudentView" -> {"editFormContainer"}
      [] OTHER -> {}

Loader == [kind |-> "loader"]
Text(t) == [kind |-> "text", text |-> t]

EmptyDom == [e \in {} |-> Loader]

\* app.innerHTML = view(): the elements with an id that #app then holds,
\* each with the content the markup gives it
ViewDom(view) ==
    [e \in Elements(view) |->
        CASE e \in {"coursesCount", "studentsCount", "usersCount"} -> Text("0")
          [] e = "paymentsTotal" -> Text("AED 0")
          [] e = "createStudentForm" -> [kind |-> "form"]
          [] OTHER -> Loader]

\* The views whose markup interpolates ${Sidebar()}
SidebarViews ==
    {"DashboardView", "StudentsListView", "PaymentsView",
     "CreateStudentView", "EditStudentView"}

\* new URLSearchParams(q).get('id')
SearchParamId(q) ==
    IF q = <<>> THEN JNull
    ELSE CASE q[1] = "id=7" -> JStr("7")
           [] q[1] = "id=5" -> JStr("5")
           [] q[1] = "id=a7" -> JStr("a7")
           [] OTHER -> JNull

\* EditStudentView: the id query parameter of the location hash, read
\* from window.location.hash.split('?')[1] (undefined, <<>>, without a '?')
StudentIdOfHash(h) == SearchParamId(SplitQ0(AfterQ(LocationHash(h))))

\* The data loads that the setTimeout callback of a view starts
ViewTimers(view, h) ==
    CASE view = "DashboardView" -> {[op |-> "loadDashboardData"]}
      [] view = "StudentsListView" -> {[op |-> "loadStudents"]}
      [] view = "PaymentsView" -> {[op |-> "loadPayments"]}
      [] view = "EditStudentView" ->
            {[op |-> "loadStudent", id |-> StudentIdOfHash(h)]}
      [] OTHER -> {}

----------------------------------------------------------------------------
(* Backend /students and /payments collections *)

\* The reply to a read of a whole collection (json-server: GET /students,
\* GET /payments)
ListReply(kind, db) ==
    CASE kind = "ok" -> HttpResponse("200", "OK", JSONbody(JArr(db)))
      [] kind = "status" -> ServerError
      [] OTHER -> NetworkFailure

\* The JavaScript value of a record's id as JSON.parse gives it: a number
\* for a numeric literal, a string otherwise
TypedId(tok) == IF tok \in NumberTokens THEN JNum(tok) ELSE JStr(tok)

\* Template interpolation `${v}` of an id
ToText(v) == IF v = JNull THEN "null" ELSE v.val

\* The position of the record served under /students/<idText>, or 0
RECURSIVE IndexOfId(_, _, _)
IndexOfId(db, idText, i) ==
    IF i > Len(db) THEN 0
    ELSE IF db[i].props["id"] = idText THEN i
    ELSE IndexOfId(db, idText, i + 1)

\* json-server: POST /students stores the JSON body under a new id, the
\* (n+1)-th of the ids it hands out
ServerPostStudent(bodyText, n) ==
    LET body == JSONparse(bodyText).value
    IN JObj([k \in DOMAIN body.props \cup {"id"} |->
                IF k = "id" THEN <<"b8", "c9", "d1", "e2">>[n + 1]
                ELSE body.props[k]])

\* json-server: PUT /students/<idText> replaces the record, keeping its id
ServerPutStudent(idText, bodyText, db) ==
    LET body == JSONparse(bodyText).value
        i == IndexOfId(db, idText, 1)
    IN JObj([k \in DOMAIN body.props \cup {"id"} |->
                IF k = "id" THEN db[i].props["id"] ELSE body.props[k]])

\* json-server: DELETE /students/<idText> removes the record
ServerDeleteStudent(idText, db) ==
    SelectSeq(db, LAMBDA r : r.props["id"] /= idText)

\* The reply to a request on /students/<idText>: 404 without such a record
ItemReply(kind, idText, db, status, value) ==
    CASE kind = "ok" ->
            (IF IndexOfId(db, idText, 1) = 0 THEN NotFound
             ELSE HttpResponse(status, "OK", JSONbody(value)))
      [] kind = "status" -> ServerError
      [] OTHER -> NetworkFailure

\* The reply to POST /students
PostReply(kind, created) ==
    CASE kind = "ok" -> HttpResponse("201", "Created", JSONbody(created))
      [] kind = "status" -> ServerError
      [] OTHER -> NetworkFailure

----------------------------------------------------------------------------
(* Student forms: create, edit, delete *)

MsgStudentEmailTaken ==
    "Error: El correo electrónico ya está registrado. Por favor, usa otro email."
MsgEmailOfUser ==
    "Error: El correo electrónico pertenece a un usuario registrado. Por favor, usa otro email."
MsgCreateError == "Error creating student"
MsgUpdateError == "Error updating student"
MsgDeleted == "Estudiante eliminado correctamente"
MsgDeleteError == "Error al eliminar estudiante"
NoAlert == ""

\* studentData of the forms
StudentData(email) == JObj([name |-> "Ana", email |-> email])

\* existing.some(r => r.email.toLowerCase() === email.toLowerCase())
EmailExists(arr, email) ==
    \E i \in 1..Len(arr.items) :
        toLowerCase(arr.items[i].props["email"]) = toLowerCase(email)

\* existingStudents.some(s => s.id !== id &&
\*                            s.email.toLowerCase() === email.toLowerCase())
EmailExistsInOther(arr, email, id) ==
    \E i \in 1..Len(arr.items) :
        /\ TypedId(arr.items[i].props["id"]) /= id
        /\ toLowerCase(arr.items[i].props["email"]) = toLowerCase(email)

\* Where a handler goes after an awaited reply, and the alert it shows
Step(next, alert) == [next |-> next, alert |-> alert]

\* handleCreateStudent: after the reply to GET /students
createStudentsChecked(email, reply) ==
    LET r == apiGet(<<"/students">>, reply) IN
    IF r.threw THEN Step("done", MsgCreateError)
    ELSE IF EmailExists(r.value, email) THEN Step("done", MsgStudentEmailTaken)
    ELSE Step("users", NoAlert)

createUsersChecked_checkSkipped(email, reply) ==
    LET r == apiGet(<<"/users">>, reply) IN
    IF r.threw THEN Step("done", MsgCreateError)
    ELSE Step("post", NoAlert)

\* handleCreateStudent: after the reply to GET /users
createUsersChecked(email, reply) ==
    LET r == apiGet(<<"/users">>, reply) IN
    IF r.threw THEN Step("done", MsgCreateError)
    ELSE IF EmailExists(r.value, email) THEN Step("done", MsgEmailOfUser)
    ELSE Step("post", NoAlert)

\* handleCreateStudent: after the reply to POST /students
createPosted(reply) ==
    LET r == apiPost(<<"/students">>, reply) IN
    IF r.threw THEN Step("done", MsgCreateError)
    ELSE Step("listed", "Student created successfully!")

\* handleEditStudent: after the reply to GET /students
editStudentsChecked(email, id, reply) ==
    LET r == apiGet(<<"/students">>, reply) IN
    IF r.threw THEN Step("done", MsgUpdateError)
    ELSE IF EmailExistsInOther(r.value, email, id)
    THEN Step("done",
              "Error: El correo electrónico ya está en uso por otro estudiante. Por favor, usa otro email.")
    ELSE Step("users", NoAlert)

\* handleEditStudent: after the reply to GET /users
editUsersChecked(email, reply) ==
    LET r == apiGet(<<"/users">>, reply) IN
    IF r.threw THEN Step("done", MsgUpdateError)
    ELSE IF EmailExists(r.value, email) THEN Step("done", MsgEmailOfUser)
    ELSE Step("put", NoAlert)

\* handleEditStudent: after the reply to PUT /students/<id>
editPut(reply) ==
    LET r == apiPut(<<"/students/", "id">>, reply) IN
    IF r.threw THEN Step("done", MsgUpdateError)
    ELSE Step("listed", "Student updated successfully!")

\* window.deleteStudent: after the reply to DELETE /students/<id>
deleteReturned(reply) ==
    LET r == apiDelete(<<"/students/", "id">>, reply) IN
    IF r.threw THEN Step("done", MsgDeleteError)
    ELSE Step("reload", NoAlert)

\* window.deleteStudent: after `await loadStudents()`
deleteReloaded(loaded) ==
    IF loaded.uncaught THEN Step("done", MsgDeleteError)
    ELSE Step("done", MsgDeleted)

----------------------------------------------------------------------------
(* Data loads of the views *)

\* document.getElementById(e).innerHTML = c (or .textContent = c): a
\* TypeError when the displayed view has no element e
SetContent(d, e, c) ==
    IF e \in DOMAIN d THEN [threw |-> FALSE, dom |-> [d EXCEPT ![e] = c]]
    ELSE [threw |-> TRUE, dom |-> d]

\* The rows of a rendered table: the ids shown and whether each row has the
\* edit / delete buttons
Rows(by, items, actions) ==
    [kind |-> "rows", by |-> by,
     ids |-> [i \in 1..Len(items) |-> items[i].props["id"]],
     actions |-> actions]

\* What a data load leaves: the DOM, the Store lists, whether it wrote to
\* console.error and whether an error escaped it
Loaded(d, l, logged, uncaught) ==
    [dom |-> d, lists |-> l, logged |-> logged, uncaught |-> uncaught]

\* studentsList.js renderStudentsTable(students)
renderStudentsTable(d, arr, u) ==
    SetContent(d, "studentsTableContainer",
               IF Len(arr.items) = 0 THEN Text("No students found")
               ELSE Rows("studentsList", arr.items, Truthy(isAdmin(u))))

\* studentsList.js loadStudents(), given the reply to GET /students
loadStudents(reply, d, l, u) ==
    LET r == apiGet(<<"/students">>, reply)
        t == renderStudentsTable(d, r.value, u)
        e == SetContent(d, "studentsTableContainer",
                        Text("Error loading students"))
    IN IF ~r.threw /\ ~t.threw THEN Loaded(t.dom, l, FALSE, FALSE)
       ELSE Loaded(e.dom, l, TRUE, e.threw)

\* payments.js renderPaymentsTable(payments)
renderPaymentsTable(d, arr) ==
    SetContent(d, "paymentsTableContainer",
               IF Len(arr.items) = 0 THEN Text("No payments found")
               ELSE Rows("payments", arr.items, FALSE))

\* payments.js loadPayments(), given the reply to GET /payments
loadPayments(reply, d, l) ==
    LET r == apiGet(<<"/payments">>, reply)
        t == renderPaymentsTable(d, r.value)
        e == SetContent(d, "paymentsTableContainer",
                        Text("Error loading payments"))
    IN IF ~r.threw /\ ~t.threw THEN Loaded(t.dom, l, FALSE, FALSE)
       ELSE Loaded(e.dom, l, TRUE, e.threw)

\* editStudent.js loadStudent(id) and the listener registration that
\* follows it, given the reply to GET /students/<id>
loadStudent(reply, d, l, id) ==
    LET r == apiGet(<<"/students/", ToText(id)>>, reply)
        form == [kind |-> "form", id |-> id,
                 email |-> r.value.props["email"]]
        t == SetContent(d, "editFormContainer", form)
        e == SetContent(d, "editFormContainer",
                        Text("Error loading student data"))
    IN IF ~r.threw /\ ~t.threw THEN Loaded(t.dom, l, FALSE, FALSE)
       ELSE Loaded(e.dom, l, TRUE, e.threw)

\* dashboard.js: the counters and the table written after both reads
\* (students.length as text, `AED ${total.toLocaleString()}` for the
\* payments that occur, students.slice(0, 5))
DashboardFilled(d, sArr, pArr) ==
    LET n == Len(sArr.items)
        m == Len(pArr.items)
    IN [e \in DOMAIN d |->
        CASE e = "coursesCount" -> Text("243")
          [] e = "studentsCount" ->
                Text(CASE n = 0 -> "0" [] n = 1 -> "1" [] n = 2 -> "2"
                       [] n = 3 -> "3" [] n = 4 -> "4" [] OTHER -> "5")
          [] e = "usersCount" -> Text("3")
          [] e = "paymentsTotal" ->
                Text(CASE m = 0 -> "AED 0" [] m = 1 -> "AED 50,000"
                       [] OTHER -> "AED 100,000")
          [] e = "studentsTableContainer" ->
                (IF n = 0 THEN Text("No students found")
                 ELSE Rows("dashboard",
                           SubSeq(sArr.items, 1, IF n < 5 THEN n ELSE 5),
                           FALSE))
          [] OTHER -> d[e]]

loadDashboardData_studentsStoredFirst(replyS, replyP, d, l) ==
    LET a == apiGet(<<"/students">>, replyS)
        b == apiGet(<<"/payments">>, replyP)
        stored == [students |-> a.value, payments |-> b.value]
    IN IF a.threw THEN Loaded(d, l, TRUE, FALSE)
       ELSE IF b.threw
       THEN Loaded(d, [l EXCEPT !.students = a.value], TRUE, FALSE)
       ELSE IF "coursesCount" \notin DOMAIN d
       THEN Loaded(d, stored, TRUE, FALSE)
       ELSE Loaded(DashboardFilled(d, a.value, b.value), stored, FALSE, FALSE)

\* dashboard.js loadDashboardData(), given the replies to GET /students and
\* GET /payments awaited together by Promise.all
loadDashboardData(replyS, replyP, d, l) ==
    LET a == apiGet(<<"/students">>, replyS)
        b == apiGet(<<"/payments">>, replyP)
        stored == [students |-> a.value, payments |-> b.value]
    IN IF a.threw \/ b.threw THEN Loaded(d, l, TRUE, FALSE)
       ELSE IF "coursesCount" \notin DOMAIN d
       THEN Loaded(d, stored, TRUE, FALSE)
       ELSE Loaded(DashboardFilled(d, a.value, b.value), stored, FALSE, FALSE)

----------------------------------------------------------------------------
(* Requested hashes *)

PathSeqs ==
    { <<>>, <<"/">>, <<"/login">>, <<"/register">>, <<"/dashboard">>,
      <<"/students">>, <<"/payments">>, <<"/students", "/create">>,
      <<"/students", "/edit">>, <<"/not-found">>, <<"/settings">>,
      <<"constructor">> }

RECURSIVE QuerySuffix(_)
QuerySuffix(n) == IF n = 0 THEN <<>> ELSE <<"?", "id=7">> \o QuerySuffix(n - 1)

Hashes == { p \o QuerySuffix(n) : p \in PathSeqs, n \in 0..MaxQueries }

----------------------------------------------------------------------------
(* State machine *)

Init ==
    /\ user = JNull
    /\ slot \in InitialSlots
    /\ hash \in {<<>>, <<"/dashboard">>}
    /\ appContent = ""
    /\ routerReady = FALSE
    /\ pending = 0
    /\ lastCall = [op |-> "none"]
    /\ users = SeedUsers
    /\ inflight = NoCall
    /\ session = JNull
    /\ students = SeedStudents
    /\ serial = 0
    /\ lists = EmptyLists
    /\ dom = EmptyDom
    /\ tasks = {}

\* app.js: a (re)load of the page runs Store.init(), Router.init() and the
\* conditional Sidebar render; the browser then fires 'load'.
LoadPage ==
    LET r == StoreInit(JNull, slot) IN
    /\ user' = r.user
    /\ routerReady' = ~r.threw
    /\ pending' = IF r.threw THEN 0 ELSE 1
    /\ appContent' = IF ~r.threw /\ Truthy(r.user) THEN "Sidebar" ELSE ""
    /\ lastCall' = [op |-> "load", slot |-> slot, threw |-> r.threw,
                    prev |-> lastCall.op]
    /\ inflight' = NoCall
    /\ lists' = EmptyLists
    /\ dom' = EmptyDom
    /\ tasks' = {}
    /\ UNCHANGED <<slot, hash, users, session, students, serial>>

\* Router.navigate(path), a link click or an edited address bar
Navigate(h) ==
    /\ h /= hash
    /\ pending + HashChangeEvents(hash, h) <= MaxPending
    /\ hash' = h
    /\ pending' = pending + HashChangeEvents(hash, h)
    /\ lastCall' = [op |-> "navigate", to |-> h]
    /\ UNCHANGED <<user, slot, appContent, routerReady, users, inflight,
                   session, students, serial, lists, dom, tasks>>

\* The 'load' / 'hashchange' listener: Router.handleRoute()
HandleRoute ==
    /\ routerReady
    /\ pending > 0
    /\ LET o == handleRoute(hash, user)
           target == IF o.redirect = NoRedirect THEN hash ELSE o.redirect
       IN /\ hash' = target
          /\ pending' = (pending - 1) + HashChangeEvents(hash, target)
          /\ appContent' = IF o.view = NoView THEN appContent
                           ELSE ViewOutput(o.view)
          /\ dom' = IF o.view = NoView THEN dom ELSE ViewDom(o.view)
          /\ tasks' = tasks \cup ViewTimers(o.view, hash)
          /\ lastCall' = [op |-> "handleRoute", hash |-> hash, user |-> user,
                          path |-> o.path, redirect |-> o.redirect,
                          view |-> o.view]
    /\ UNCHANGED <<user, slot, routerReady, users, inflight, session,
                   students, serial, lists>>

\* Store.setUser(p)
SetUser(p) ==
    /\ routerReady
    /\ LET s == StoreSetUser(user, p) IN
          /\ user' = s.user
          /\ slot' = s.slot
    /\ lastCall' = [op |-> "setUser", arg |-> p, before |-> user]
    /\ session' = p
    /\ UNCHANGED <<hash, appContent, routerReady, pending, users, inflight,
                   students, serial, lists, dom, tasks>>

\* Store.clearUser()
ClearUser ==
    /\ routerReady
    /\ LET s == StoreClearUser(slot) IN
          /\ user' = s.user
          /\ slot' = s.slot
    /\ lastCall' = [op |-> "clearUser"]
    /\ session' = JNull
    /\ UNCHANGED <<hash, appContent, routerReady, pending, users, inflight,
                   students, serial, lists, dom, tasks>>

Next ==
    \/ LoadPage
    \/ \E h \in Hashes : Navigate(h)
    \/ HandleRoute
    \/ \E p \in Principals : SetUser(p)
    \/ ClearUser

Spec == Init /\ [][Next]_vars

----------------------------------------------------------------------------
(* Authentication: login, register and logout against the backend *)

\* The hashes visited while the auth handlers are exercised
AuthHashes == { <<"/login">>, <<"/dashboard">>, <<"/students", "/create">> }

\* The HTTP reply to a GET issued by an auth call
GetReply(kind, url) ==
    CASE kind = "ok" ->
            HttpResponse("200", "OK", JSONbody(ServerGetUsers(SentUrl(url), users)))
      [] kind = "status" -> ServerError
      [] OTHER -> NetworkFailure

\* window.location.reload(): app.js runs again against persisted slot s
PageLoad(s) ==
    LET r == StoreInit(JNull, s) IN
    [user |-> r.user, routerReady |-> ~r.threw,
     pending |-> IF r.threw THEN 0 ELSE 1,
     appContent |-> IF ~r.threw /\ Truthy(r.user) THEN "Sidebar" ELSE ""]

\* handleLogin / handleRegister after a successful result:
\* window.location.hash = '#/dashboard'; window.location.reload()
EnterDashboard(s) ==
    LET l == PageLoad(s) IN
    /\ hash' = <<"/dashboard">>
    /\ user' = l.user
    /\ routerReady' = l.routerReady
    /\ pending' = l.pending
    /\ appContent' = l.appContent
    /\ lists' = EmptyLists
    /\ dom' = EmptyDom
    /\ tasks' = {}

\* handleLogin: the form is submitted and authService.login awaits the API
LoginCall(c) ==
    /\ routerReady
    /\ inflight = NoCall
    /\ inflight' = [op |-> "login", email |-> c[1], password |-> c[2]]
    /\ lastCall' = [op |-> "loginCall", email |-> c[1], password |-> c[2]]
    /\ UNCHANGED <<user, slot, hash, appContent, routerReady, pending, users,
                   session, students, serial, lists, dom, tasks>>

\* handleLogin: the API reply arrives and authService.login returns
LoginReturn(kind) ==
    /\ routerReady
    /\ inflight.op = "login"
    /\ LET reply == GetReply(kind, LoginUrl(inflight.email, inflight.password))
           r == login(inflight.email, inflight.password, reply, user, slot)
       IN /\ slot' = r.slot
          /\ IF r.result.success
             THEN /\ EnterDashboard(r.slot)
                  /\ session' = r.result.user
             ELSE /\ user' = r.user
                  /\ session' = session
                  /\ UNCHANGED <<hash, routerReady, pending, appContent,
                                 lists, dom, tasks>>
          /\ lastCall' = [op |-> "login", email |-> inflight.email,
                          password |-> inflight.password, reply |-> kind,
                          result |-> r.result, userBefore |-> user,
                          slotBefore |-> slot, userAfterCall |-> r.user]
    /\ inflight' = NoCall
    /\ UNCHANGED <<users, students, serial>>

\* handleRegister: the form is submitted and authService.register awaits
\* its existing-email check
RegisterCall(d) ==
    /\ routerReady
    /\ inflight = NoCall
    /\ Len(users) < MaxUsers
    /\ inflight' = [op |-> "register", stage |-> "check", data |-> d]
    /\ lastCall' = [op |-> "registerCall", data |-> d]
    /\ UNCHANGED <<user, slot, hash, appContent, routerReady, pending, users,
                   session, students, serial, lists, dom, tasks>>

\* authService.register: the reply to the existing-email check arrives
RegisterChecked(kind) ==
    /\ routerReady
    /\ inflight.op = "register"
    /\ inflight.stage = "check"
    /\ LET reply == GetReply(kind, RegisterCheckUrl(inflight.data["email"]))
           c == registerCheck(inflight.data, reply)
       IN IF c.proceed
          THEN /\ inflight' = [inflight EXCEPT !.stage = "post"]
               /\ lastCall' = [op |-> "registerCheck", data |-> inflight.data]
          ELSE /\ inflight' = NoCall
               /\ lastCall' = [op |-> "register", data |-> inflight.data,
                               reply |-> kind, posted |-> FALSE,
                               result |-> c.result, usersBefore |-> users,
                               userBefore |-> user, slotBefore |-> slot,
                               userAfterCall |-> user]
    /\ UNCHANGED <<user, slot, hash, appContent, routerReady, pending, users,
                   session, students, serial, lists, dom, tasks>>

\* authService.register: the reply to POST /users arrives; handleRegister
\* then enters the dashboard or alerts
RegisterPosted(kind) ==
    /\ routerReady
    /\ inflight.op = "register"
    /\ inflight.stage = "post"
    /\ LET created == ServerPostUser(
                          JSONstringify(RegisterBody(inflight.data)), users)
           reply == CASE kind = "ok" ->
                            HttpResponse("201", "Created", JSONbody(created))
                      [] kind = "status" -> ServerError
                      [] OTHER -> NetworkFailure
           r == registerCreate(inflight.data, reply, user, slot)
       IN /\ users' = IF kind = "ok" THEN Append(users, created) ELSE users
          /\ slot' = r.slot
          /\ IF r.result.success
             THEN /\ EnterDashboard(r.slot)
                  /\ session' = r.result.user
             ELSE /\ user' = r.user
                  /\ UNCHANGED <<hash, routerReady, pending, appContent,
                                 session, lists, dom, tasks>>
          /\ lastCall' = [op |-> "register", data |-> inflight.data,
                          reply |-> kind, posted |-> TRUE,
                          result |-> r.result, usersBefore |-> users,
                          userBefore |-> user, slotBefore |-> slot,
                          userAfterCall |-> r.user]
    /\ inflight' = NoCall
    /\ UNCHANGED <<students, serial>>

\* window.handleLogout: authService.logout()
Logout ==
    /\ routerReady
    /\ LET r == logout(user, slot) IN
          /\ pending + HashChangeEvents(hash, r.hash) <= MaxPending
          /\ user' = r.user
          /\ slot' = r.slot
          /\ hash' = r.hash
          /\ pending' = pending + HashChangeEvents(hash, r.hash)
          /\ session' = JNull
    /\ lastCall' = [op |-> "logout", userBefore |-> user, hashBefore |-> hash]
    /\ UNCHANGED <<appContent, routerReady, users, inflight, students, serial, lists,
                   dom, tasks>>

NextAuth ==
    \/ LoadPage
    \/ \E h \in AuthHashes : Navigate(h)
    \/ HandleRoute
    \/ \E c \in Credentials : LoginCall(c)
    \/ \E k \in ReplyKinds : LoginReturn(k)
    \/ \E d \in Registrations : RegisterCall(d)
    \/ \E k \in ReplyKinds : RegisterChecked(k)
    \/ \E k \in ReplyKinds : RegisterPosted(k)
    \/ Logout
    \/ \E p \in Principals : SetUser(p)
    \/ ClearUser

SpecAuth == Init /\ [][NextAuth]_vars

----------------------------------------------------------------------------
(* API Client: each method applied to each reply *)

ApiMethods == {"get", "post", "put", "delete"}
ApiEndpoints == { <<"/users">>, <<"/students">>, <<"/students/7">>,
                  <<"/payments">> }
ApiReplies ==
    { HttpResponse("200", "OK", JSONbody(JArr(<<>>))),
      HttpResponse("201", "Created", JSONbody(AdminP)),
      NotFound, ServerError, NetworkFailure }

InitApi ==
    /\ user = JNull
    /\ slot = NoItem
    /\ hash = <<>>
    /\ appContent = ""
    /\ routerReady = FALSE
    /\ pending = 0
    /\ users = SeedUsers
    /\ inflight = NoCall
    /\ session = JNull
    /\ students = SeedStudents
    /\ serial = 0
    /\ lists = EmptyLists
    /\ dom = EmptyDom
    /\ tasks = {}
    /\ lastCall \in [op : {"apiCall"}, method : ApiMethods,
                     endpoint : ApiEndpoints, reply : ApiReplies]

\* One call of apiService.get / post / put / delete and what it gives back
ApiCall ==
    /\ lastCall.op = "apiCall"
    /\ lastCall' =
          [op |-> "apiResult", method |-> lastCall.method,
           endpoint |-> lastCall.endpoint, reply |-> lastCall.reply,
           outcome |->
              CASE lastCall.method = "get" ->
                      apiGet(lastCall.endpoint, lastCall.reply)
                [] lastCall.method = "post" ->
                      apiPost(lastCall.endpoint, lastCall.reply)
                [] lastCall.method = "put" ->
                      apiPut(lastCall.endpoint, lastCall.reply)
                [] OTHER -> apiDelete(lastCall.endpoint, lastCall.reply)]
    /\ UNCHANGED <<user, slot, hash, appContent, routerReady, pending, users,
                   inflight, session, students, serial, lists, dom, tasks>>

NextApi == ApiCall

SpecApi == InitApi /\ [][NextApi]_vars

----------------------------------------------------------------------------
(* Views: data loads and the student forms against the backend *)

InitViews ==
    /\ user = JNull
    /\ slot \in {Item(JSONstringify(p)) : p \in Principals}
    /\ hash = <<"/dashboard">>
    /\ appContent = ""
    /\ routerReady = FALSE
    /\ pending = 0
    /\ lastCall = [op |-> "none"]
    /\ users = SeedUsers
    /\ inflight = NoCall
    /\ session = JNull
    /\ students = SeedStudents
    /\ serial = 0
    /\ lists = EmptyLists
    /\ dom = EmptyDom
    /\ tasks = {}

\* What a step of a view's load or handler did
ViewCall(op, t, kinds, r, st) ==
    [op |-> op, task |-> t, reply |-> kinds, displayed |-> appContent,
     domBefore |-> dom, listsBefore |-> lists, studentsBefore |-> students,
     usersBefore |-> users, logged |-> r.logged, uncaught |-> r.uncaught,
     alert |-> st.alert, next |-> st.next]

\* A handler step that touches neither the DOM nor the Store lists
Quiet(logged) == Loaded(dom, lists, logged, FALSE)

\* A link click or an edited address bar while the views are in use
Visit(h) ==
    /\ Cardinality(tasks) + pending < MaxTasks
    /\ Navigate(h)

\* dashboard.js: both replies awaited by loadDashboardData have arrived
LoadDashboardData(kS, kP) ==
    /\ routerReady
    /\ \E t \in tasks :
          /\ t.op = "loadDashboardData"
          /\ LET r == loadDashboardData(ListReply(kS, students),
                                        ListReply(kP, SeedPayments), dom, lists)
             IN /\ dom' = r.dom
                /\ lists' = r.lists
                /\ lastCall' = ViewCall("loadDashboardData", t, <<kS, kP>>, r,
                                        Step("done", NoAlert))
          /\ tasks' = tasks \ {t}
    /\ UNCHANGED <<user, slot, hash, appContent, routerReady, pending, users,
                   inflight, session, students, serial>>

\* studentsList.js: the reply awaited by loadStudents has arrived
LoadStudents(k) ==
    /\ routerReady
    /\ \E t \in tasks :
          /\ t.op = "loadStudents"
          /\ LET r == loadStudents(ListReply(k, students), dom, lists, user)
             IN /\ dom' = r.dom
                /\ lists' = r.lists
                /\ lastCall' = ViewCall("loadStudents", t, <<k>>, r, Step("done", NoAlert))
          /\ tasks' = tasks \ {t}
    /\ UNCHANGED <<user, slot, hash, appContent, routerReady, pending, users,
                   inflight, session, students, serial>>

\* payments.js: the reply awaited by loadPayments has arrived
LoadPayments(k) ==
    /\ routerReady
    /\ \E t \in tasks :
          /\ t.op = "loadPayments"
          /\ LET r == loadPayments(ListReply(k, SeedPayments), dom, lists)
             IN /\ dom' = r.dom
                /\ lists' = r.lists
                /\ lastCall' = ViewCall("loadPayments", t, <<k>>, r, Step("done", NoAlert))
          /\ tasks' = tasks \ {t}
    /\ UNCHANGED <<user, slot, hash, appContent, routerReady, pending, users,
                   inflight, session, students, serial>>

\* editStudent.js: the reply awaited by loadStudent has arrived
LoadStudent(k) ==
    /\ routerReady
    /\ \E t \in tasks :
          /\ t.op = "loadStudent"
          /\ LET i == IndexOfId(students, ToText(t.id), 1)
                 reply == ItemReply(k, ToText(t.id), students, "200",
                                    students[i])
                 r == loadStudent(reply, dom, lists, t.id)
             IN /\ dom' = r.dom
                /\ lists' = r.lists
                /\ lastCall' = ViewCall("loadStudent", t, <<k>>, r, Step("done", NoAlert))
          /\ tasks' = tasks \ {t}
    /\ UNCHANGED <<user, slot, hash, appContent, routerReady, pending, users,
                   inflight, session, students, serial>>

\* A handler leaves its awaited request: it goes on to st.next or ends
Advance(t, st) ==
    IF st.next \in {"done", "listed"} THEN tasks \ {t}
    ELSE (tasks \ {t}) \cup {[t EXCEPT !.pc = st.next]}

\* The create form is submitted: handleCreateStudent awaits GET /students
SubmitCreate(email) ==
    /\ routerReady
    /\ "createStudentForm" \in DOMAIN dom
    /\ Cardinality(tasks) + pending < MaxTasks
    /\ Len(students) + Cardinality({t \in tasks : t.op = "handleCreateStudent"})
          < MaxStudents
    /\ LET t == [op |-> "handleCreateStudent", pc |-> "students",
                 email |-> email]
       IN /\ t \notin tasks
          /\ tasks' = tasks \cup {t}
          /\ lastCall' = ViewCall("submitCreate", t, <<>>, Quiet(FALSE),
                                  Step("students", NoAlert))
    /\ UNCHANGED <<user, slot, hash, appContent, routerReady, pending, users,
                   inflight, session, students, serial, lists, dom>>

\* handleCreateStudent: the reply to GET /students has arrived
CreateStudentsRead(k) ==
    /\ routerReady
    /\ \E t \in tasks :
          /\ t.op = "handleCreateStudent"
          /\ t.pc = "students"
          /\ LET st == createStudentsChecked(t.email, ListReply(k, students))
             IN /\ tasks' = Advance(t, st)
                /\ lastCall' = ViewCall("createStudentsRead", t, <<k>>,
                                        Quiet(st.alert = MsgCreateError),
                                        st)
    /\ UNCHANGED <<user, slot, hash, appContent, routerReady, pending, users,
                   inflight, session, students, serial, lists, dom>>

\* handleCreateStudent: the reply to GET /users has arrived
CreateUsersRead(k) ==
    /\ routerReady
    /\ \E t \in tasks :
          /\ t.op = "handleCreateStudent"
          /\ t.pc = "users"
          /\ LET st == createUsersChecked(t.email, ListReply(k, users))
             IN /\ tasks' = Advance(t, st)
                /\ lastCall' = ViewCall("createUsersRead", t, <<k>>,
                                        Quiet(st.alert = MsgCreateError),
                                        st)
    /\ UNCHANGED <<user, slot, hash, appContent, routerReady, pending, users,
                   inflight, session, students, serial, lists, dom>>

\* handleCreateStudent: the reply to POST /students has arrived
CreatePosted(k) ==
    /\ routerReady
    /\ \E t \in tasks :
          /\ t.op = "handleCreateStudent"
          /\ t.pc = "post"
          /\ LET created == ServerPostStudent(
                                JSONstringify(StudentData(t.email)), serial)
                 st == createPosted(PostReply(k, created))
                 target == IF st.next = "listed" THEN <<"/students">> ELSE hash
             IN /\ pending + HashChangeEvents(hash, target) <= MaxPending
                /\ students' = IF k = "ok" THEN Append(students, created)
                               ELSE students
                /\ serial' = IF k = "ok" THEN serial + 1 ELSE serial
                /\ hash' = target
                /\ pending' = pending + HashChangeEvents(hash, target)
                /\ tasks' = Advance(t, st)
                /\ lastCall' = ViewCall("createPosted", t, <<k>>,
                                        Quiet(st.alert = MsgCreateError),
                                        st)
    /\ UNCHANGED <<user, slot, appContent, routerReady, users, inflight,
                   session, lists, dom>>

\* The edit form is submitted: handleEditStudent(e, id) awaits GET /students
SubmitEdit(email) ==
    /\ routerReady
    /\ "editFormContainer" \in DOMAIN dom
    /\ dom["editFormContainer"].kind = "form"
    /\ Cardinality(tasks) + pending < MaxTasks
    /\ LET t == [op |-> "handleEditStudent", pc |-> "students",
                 id |-> dom["editFormContainer"].id, email |-> email]
       IN /\ t \notin tasks
          /\ tasks' = tasks \cup {t}
          /\ lastCall' = ViewCall("submitEdit", t, <<>>, Quiet(FALSE),
                                  Step("students", NoAlert))
    /\ UNCHANGED <<user, slot, hash, appContent, routerReady, pending, users,
                   inflight, session, students, serial, lists, dom>>

\* handleEditStudent: the reply to GET /students has arrived
EditStudentsRead(k) ==
    /\ routerReady
    /\ \E t \in tasks :
          /\ t.op = "handleEditStudent"
          /\ t.pc = "students"
          /\ LET st == editStudentsChecked(t.email, t.id,
                                           ListReply(k, students))
             IN /\ tasks' = Advance(t, st)
                /\ lastCall' = ViewCall("editStudentsRead", t, <<k>>,
                                        Quiet(st.alert = MsgUpdateError),
                                        st)
    /\ UNCHANGED <<user, slot, hash, appContent, routerReady, pending, users,
                   inflight, session, students, serial, lists, dom>>

\* handleEditStudent: the reply to GET /users has arrived
EditUsersRead(k) ==
    /\ routerReady
    /\ \E t \in tasks :
          /\ t.op = "handleEditStudent"
          /\ t.pc = "users"
          /\ LET st == editUsersChecked(t.email, ListReply(k, users))
             IN /\ tasks' = Advance(t, st)
                /\ lastCall' = ViewCall("editUsersRead", t, <<k>>,
                                        Quiet(st.alert = MsgUpdateError),
                                        st)
    /\ UNCHANGED <<user, slot, hash, appContent, routerReady, pending, users,
                   inflight, session, students, serial, lists, dom>>

\* handleEditStudent: the reply to PUT /students/<id> has arrived
EditPut(k) ==
    /\ routerReady
    /\ \E t \in tasks :
          /\ t.op = "handleEditStudent"
          /\ t.pc = "put"
          /\ LET i == IndexOfId(students, ToText(t.id), 1)
                 updated == ServerPutStudent(ToText(t.id),
                               JSONstringify(StudentData(t.email)), students)
                 reply == ItemReply(k, ToText(t.id), students, "200", updated)
                 st == editPut(reply)
                 target == IF st.next = "listed" THEN <<"/students">> ELSE hash
             IN /\ pending + HashChangeEvents(hash, target) <= MaxPending
                /\ students' = IF reply.kind = "response" /\ ResponseOk(reply)
                               THEN [students EXCEPT ![i] = updated]
                               ELSE students
                /\ hash' = target
                /\ pending' = pending + HashChangeEvents(hash, target)
                /\ tasks' = Advance(t, st)
                /\ lastCall' = ViewCall("editPut", t, <<k>>,
                                        Quiet(st.alert = MsgUpdateError),
                                        st)
    /\ UNCHANGED <<user, slot, appContent, routerReady, users, inflight,
                   session, serial, lists, dom>>

\* A delete button of the students table is clicked and confirmed:
\* window.deleteStudent(id) awaits DELETE /students/<id>
DeleteClick(id) ==
    /\ routerReady
    /\ "studentsTableContainer" \in DOMAIN dom
    /\ dom["studentsTableContainer"].kind = "rows"
    /\ dom["studentsTableContainer"].actions
    /\ \E i \in DOMAIN dom["studentsTableContainer"].ids :
          dom["studentsTableContainer"].ids[i] = id
    /\ Cardinality(tasks) + pending < MaxTasks
    /\ LET t == [op |-> "deleteStudent", pc |-> "delete", id |-> id]
       IN /\ t \notin tasks
          /\ tasks' = tasks \cup {t}
          /\ lastCall' = ViewCall("deleteClick", t, <<>>, Quiet(FALSE),
                                  Step("delete", NoAlert))
    /\ UNCHANGED <<user, slot, hash, appContent, routerReady, pending, users,
                   inflight, session, students, serial, lists, dom>>

\* window.deleteStudent: the reply to DELETE /students/<id> has arrived
DeleteReturned(k) ==
    /\ routerReady
    /\ \E t \in tasks :
          /\ t.op = "deleteStudent"
          /\ t.pc = "delete"
          /\ LET reply == ItemReply(k, t.id, students, "200", JObj(<<>>))
                 st == deleteReturned(reply)
             IN /\ students' = IF reply.kind = "response" /\ ResponseOk(reply)
                               THEN ServerDeleteStudent(t.id, students)
                               ELSE students
                /\ tasks' = Advance(t, st)
                /\ lastCall' = ViewCall("deleteReturned", t, <<k>>,
                                        Quiet(FALSE), st)
    /\ UNCHANGED <<user, slot, hash, appContent, routerReady, pending, users,
                   inflight, session, serial, lists, dom>>

\* window.deleteStudent: the reply awaited by its loadStudents() has arrived
DeleteReloaded(k) ==
    /\ routerReady
    /\ \E t \in tasks :
          /\ t.op = "deleteStudent"
          /\ t.pc = "reload"
          /\ LET r == loadStudents(ListReply(k, students), dom, lists, user)
                 st == deleteReloaded(r)
             IN /\ dom' = r.dom
                /\ lists' = r.lists
                /\ tasks' = Advance(t, st)
                /\ lastCall' = ViewCall("deleteReloaded", t, <<k>>,
                                        [r EXCEPT !.uncaught = FALSE], st)
    /\ UNCHANGED <<user, slot, hash, appContent, routerReady, pending, users,
                   inflight, session, students, serial>>

\* The data loads of the dashboard, the students list and the payments view
NextViews ==
    \/ LoadPage
    \/ \E h \in { <<"/dashboard">>, <<"/students">>, <<"/payments">> } :
            Visit(h)
    \/ HandleRoute
    \/ \E kS, kP \in ReplyKinds : LoadDashboardData(kS, kP)
    \/ \E k \in ReplyKinds : LoadStudents(k)
    \/ \E k \in ReplyKinds : LoadPayments(k)

SpecViews == InitViews /\ [][NextViews]_vars

\* The create form, with submissions that may overlap
NextCreate ==
    \/ LoadPage
    \/ \E h \in { <<"/students">>, <<"/students", "/create">> } : Visit(h)
    \/ HandleRoute
    \/ \E k \in ReplyKinds : LoadStudents(k)
    \/ \E e \in {"ana@crudops.com", "Ana@crudops.com", "Luis@crudops.com",
                "Admin@crudops.com"} : SubmitCreate(e)
    \/ \E k \in ReplyKinds : CreateStudentsRead(k)
    \/ \E k \in ReplyKinds : CreateUsersRead(k)
    \/ \E k \in ReplyKinds : CreatePosted(k)

SpecCreate == InitViews /\ [][NextCreate]_vars

\* The edit form
NextEdit ==
    \/ LoadPage
    \/ \E h \in { <<"/students">>, <<"/students", "/edit", "?", "id=5">>,
                 <<"/students", "/edit", "?", "id=a7">> } : Visit(h)
    \/ HandleRoute
    \/ \E k \in ReplyKinds : LoadStudents(k)
    \/ \E k \in ReplyKinds : LoadStudent(k)
    \/ \E e \in {"luis@crudops.com", "eva@crudops.com", "zoe@crudops.com"} :
            SubmitEdit(e)
    \/ \E k \in ReplyKinds : EditStudentsRead(k)
    \/ \E k \in ReplyKinds : EditUsersRead(k)
    \/ \E k \in ReplyKinds : EditPut(k)

SpecEdit == InitViews /\ [][NextEdit]_vars

\* The delete buttons of the students table
NextDelete ==
    \/ LoadPage
    \/ \E h \in { <<"/students">>, <<"/payments">> } : Visit(h)
    \/ HandleRoute
    \/ \E k \in ReplyKinds : LoadStudents(k)
    \/ \E k \in ReplyKinds : LoadPayments(k)
    \/ \E id \in {"5", "a7"} : DeleteClick(id)
    \/ \E k \in ReplyKinds : DeleteReturned(k)
    \/ \E k \in ReplyKinds : DeleteReloaded(k)

SpecDelete == InitViews /\ [][NextDelete]_vars

----------------------------------------------------------------------------
(* Properties *)

RestrictedViews ==
    {"DashboardView", "StudentsListView", "PaymentsView",
     "CreateStudentView", "EditStudentView"}
ElevatedViews == {"CreateStudentView", "EditStudentView"}

Routed == lastCall.op = "handleRoute"

\* C1: a handleRoute invocation for an elevated path (/students/create,
\* /students/edit) while no principal is present redirects to /login and
\* never to /not-found: the authentication check fires before the role check.
C1_UnauthElevatedRedirectsToLogin ==
    (Routed /\ lastCall.path \in adminRoutes /\ lastCall.user = JNull)
        => /\ lastCall.redirect = <<"/login">>
           /\ lastCall.redirect /= <<"/not-found">>
           /\ hash = <<"/login">>

C1_Witness ==
    /\ Routed
    /\ lastCall.path \in adminRoutes
    /\ lastCall.user = JNull
    /\ hash = <<"/login">>

\* C2: a handleRoute invocation for an elevated path while a principal whose
\* role is not admin is present redirects to /not-found and renders no view.
C2_NonAdminElevatedRedirectsToNotFound ==
    (Routed /\ lastCall.path \in adminRoutes /\ lastCall.user /= JNull
            /\ ~RoleIsAdmin(lastCall.user))
        => /\ lastCall.redirect = <<"/not-found">>
           /\ lastCall.view = NoView
           /\ hash = <<"/not-found">>

C2_Witness ==
    /\ Routed
    /\ lastCall.path = "/students/edit"
    /\ lastCall.user = UserP
    /\ hash = <<"/not-found">>

\* C3: whenever handleRoute renders the view of a restricted path a
\* principal is present in the Session Store at that moment, and whenever it
\* renders the view of /students/create or /students/edit that principal has
\* role admin.
C3_RestrictedViewsNeedPrincipal ==
    Routed =>
        /\ lastCall.view \in RestrictedViews =>
              (lastCall.user /= JNull /\ user /= JNull)
        /\ lastCall.view \in ElevatedViews => RoleIsAdmin(lastCall.user)

C3_Witness ==
    /\ Routed
    /\ lastCall.view = "EditStudentView"
    /\ appContent = "EditStudentView"
    /\ lastCall.user = AdminP

\* C4: a handleRoute invocation for a restricted path while no principal is
\* present sets the path to /login and stops: it renders no view (the
\* displayed content is unchanged) and leaves a navigation event queued, whose
\* invocation is the one that renders.
C4_UnauthRestrictedRedirectIsTerminal ==
    [][ (lastCall'.op = "handleRoute" /\ lastCall'.path \in protectedRoutes
            /\ lastCall'.user = JNull)
          => /\ hash' = <<"/login">>
             /\ lastCall'.view = NoView
             /\ appContent' = appContent
             /\ pending' >= 1 ]_vars

C4_Witness ==
    /\ Routed
    /\ lastCall.path = "/payments"
    /\ lastCall.user = JNull
    /\ hash = <<"/login">>
    /\ pending >= 1

\* C5: a handleRoute invocation for / or /login while a principal is present
\* redirects to /dashboard and does not render the login view.
C5_LoggedInLoginRedirectsToDashboard ==
    (Routed /\ lastCall.path \in {"/", "/login"} /\ lastCall.user /= JNull)
        => /\ lastCall.redirect = <<"/dashboard">>
           /\ hash = <<"/dashboard">>
           /\ lastCall.view /= "LoginView"

C5_Witness ==
    /\ Routed
    /\ lastCall.path = "/"
    /\ lastCall.user = UserP
    /\ hash = <<"/dashboard">>

GuardFired(path, u) ==
    \/ path \in protectedRoutes /\ u = JNull
    \/ path \in adminRoutes /\ ~RoleIsAdmin(u)
    \/ path \in {"/", "/login"} /\ u /= JNull

\* C6: when none of the three guard rules fires, handleRoute renders the view
\* registered for the path and, for any path with no entry in the route
\* table, renders the not-found view without changing the path, whether or
\* not a principal is present.
C6_AllowedPathRendersRegisteredViewOrNotFound ==
    (Routed /\ ~GuardFired(lastCall.path, lastCall.user))
        => /\ lastCall.redirect = NoRedirect
           /\ hash = lastCall.hash
           /\ lastCall.view = IF lastCall.path \in DOMAIN routes
                              THEN routes[lastCall.path]
                              ELSE "NotFoundView"
           /\ appContent = lastCall.view

\* C7: the outcome of handleRoute depends only on the part of the hash before
\* the first '?': a request for P?q gets the same redirect target or the same
\* rendered view as a request for P.
C7_QueryStringIgnored ==
    Routed =>
        LET bare == handleRoute(SplitQ0(lastCall.hash), lastCall.user) IN
        /\ lastCall.redirect = bare.redirect
        /\ lastCall.view = bare.view

\* C8: Store.setUser(p) followed immediately by Store.getUser() returns a
\* principal equal to p, whatever was held before.
C8_SetUserGetUserRoundTrip ==
    lastCall.op = "setUser" => StoreGetUser(user) = lastCall.arg

C8_Witness ==
    /\ lastCall.op = "setUser"
    /\ lastCall.arg = UserP
    /\ lastCall.before = AdminP
    /\ StoreGetUser(user) = UserP

\* C9: after Store.clearUser(), Store.getUser() returns absent, and a fresh
\* Store.init() run against the persisted slot left by clearUser also leaves
\* the principal absent.
C9_ClearUserThenInitAbsent ==
    /\ [](lastCall.op = "clearUser" => StoreGetUser(user) = JNull)
    /\ [][ (lastCall.op = "clearUser" /\ lastCall'.op = "load")
             => (StoreGetUser(user') = JNull /\ ~lastCall'.threw) ]_vars

C9_Witness ==
    /\ lastCall.op = "load"
    /\ lastCall.prev = "clearUser"
    /\ lastCall.slot = NoItem
    /\ user = JNull

\* C10: Store.init() completes without raising an error and leaves the
\* principal absent both when the persisted slot is absent and when it holds
\* a malformed record; the two cases are not distinguished.
C10_InitSilentOnAbsentOrMalformed ==
    (lastCall.op = "load"
        /\ (~lastCall.slot.has \/ lastCall.slot.text \in MalformedTexts))
        => (~lastCall.threw /\ user = JNull)

----------------------------------------------------------------------------
(* Properties of the Session Store mirror and the Auth Gateway *)

\* C11: a session survives page reloads: after Store.setUser(p), by a
\* successful login or register, every reload followed by Store.init()
\* yields a principal equal to p, until clearUser or another setUser runs.
C11_SessionSurvivesReload ==
    (lastCall.op = "load" /\ session /= JNull)
        => (~lastCall.threw /\ StoreGetUser(user) = session)

C11_Witness ==
    /\ lastCall.op = "load"
    /\ lastCall.prev = "load"
    /\ session \notin Principals
    /\ session /= JNull
    /\ StoreGetUser(user) = session

Mirror ==
    /\ (user /= JNull) <=> slot.has
    /\ slot.has => slot.text = JSONstringify(user)

IsPrincipal(v) ==
    /\ v.type = "object"
    /\ DOMAIN v.props = {"id", "name", "email", "password", "role"}

SlotHoldsPrincipal ==
    /\ slot.has
    /\ ~JSONparse(slot.text).threw
    /\ IsPrincipal(JSONparse(slot.text).value)

HoldsCredentials(db, email, password) ==
    \E i \in 1..Len(db) :
        /\ db[i].props["email"] = email
        /\ db[i].props["password"] = password

\* C13: authService.login(email, password) against a backend that holds a
\* user record with exactly that email and password returns success with
\* that record, and afterwards the Session Store holds that record.
C13_LoginWithStoredCredentialsSucceeds ==
    (lastCall.op = "login" /\ lastCall.reply = "ok"
        /\ HoldsCredentials(users, lastCall.email, lastCall.password))
        => /\ lastCall.result.success
           /\ lastCall.result.user.props["email"] = lastCall.email
           /\ lastCall.result.user.props["password"] = lastCall.password
           /\ StoreGetUser(user) = lastCall.result.user

\* C14: authService.login that matches no credential record, or whose API
\* request fails, returns a failure result with a reason string and leaves
\* the in-memory principal and the persisted slot as they were.
C14_FailedLoginLeavesStoreUnchanged ==
    (lastCall.op = "login"
        /\ (lastCall.reply /= "ok"
              \/ ~HoldsCredentials(users, lastCall.email, lastCall.password)))
        => /\ ~lastCall.result.success
           /\ "message" \in DOMAIN lastCall.result
           /\ user = lastCall.userBefore
           /\ slot = lastCall.slotBefore

NoMatchReply == HttpResponse("200", "OK", JSONbody(JArr(<<>>)))

DiffersOnlyInCase(a, b) == a /= b /\ toLowerCase(a) = toLowerCase(b)

\* C16: when a user record with email e exists, authService.register with an
\* email that differs from e only in letter case returns a failure result,
\* creates no user record and leaves the Session Store unchanged.
C16_RegisterRejectsCaseVariantEmail ==
    (lastCall.op = "register"
        /\ \E i \in 1..Len(lastCall.usersBefore) :
              DiffersOnlyInCase(lastCall.usersBefore[i].props["email"],
                                lastCall.data["email"]))
        => /\ ~lastCall.result.success
           /\ users = lastCall.usersBefore
           /\ user = lastCall.userBefore
           /\ slot = lastCall.slotBefore

GivenRole(d) == IF "role" \in DOMAIN d /\ d["role"] /= "" THEN d["role"] ELSE "user"

ProtectedHashes ==
    { <<"/dashboard">>, <<"/students">>, <<"/payments">>,
      <<"/students", "/create">>, <<"/students", "/edit">> }

\* C18: authService.logout() leaves the Session Store with no principal and
\* the persisted slot removed, issues no API request and sets the path to
\* /login; after it isAuthenticated() is false and a navigation to any
\* restricted path redirects to /login.
C18_LogoutEndsSession ==
    /\ [](lastCall.op = "logout" =>
            /\ StoreGetUser(user) = JNull
            /\ slot = NoItem
            /\ hash = <<"/login">>
            /\ ~isAuthenticated(user)
            /\ \A h \in ProtectedHashes :
                  handleRoute(h, user).redirect = <<"/login">>)
    /\ [][lastCall'.op = "logout" =>
            (inflight' = inflight /\ users' = users)]_vars

C18_Witness ==
    /\ lastCall.op = "logout"
    /\ lastCall.userBefore = AdminP
    /\ lastCall.hashBefore = <<"/dashboard">>
    /\ hash = <<"/login">>
    /\ slot = NoItem

\* C19: authService.isAdmin() returns the boolean true exactly when a
\* principal is present and its role is admin, and the boolean false in every
\* other state, including when no principal is present.
C19_IsAdminReturnsBoolean ==
    routerReady => isAdmin(user) = JBool(user /= JNull /\ RoleIsAdmin(user))

FailingReply(reply) == reply.kind = "network" \/ ~ResponseOk(reply)

MethodVerb(m) ==
    CASE m = "get" -> "fetching" [] m = "post" -> "posting"
      [] m = "put" -> "updating" [] OTHER -> "deleting"

Carries(msg, word) == \E i \in 1..Len(msg) : msg[i] = word

\* C20 (as stated): each of apiService.get, post, put and delete, on a
\* non-success HTTP status or a transport failure, throws an error that
\* carries both the failed path and the operation; it never returns a value.
C20_ApiErrorCarriesPathAndOperation ==
    (lastCall.op = "apiResult" /\ FailingReply(lastCall.reply))
        => /\ lastCall.outcome.threw
           /\ Carries(lastCall.outcome.error, Join(lastCall.endpoint))
           /\ Carries(lastCall.outcome.error, MethodVerb(lastCall.method))

\* C20 (amended): each of the four methods throws in those cases and never
\* returns a value; on a non-success status the error names the operation and
\* the status but not the path, and on a transport failure it is the
\* rejection of fetch, which names neither.
C20_ApiFailureThrows ==
    (lastCall.op = "apiResult" /\ FailingReply(lastCall.reply))
        => /\ lastCall.outcome.threw
           /\ "value" \notin DOMAIN lastCall.outcome
           /\ ~Carries(lastCall.outcome.error, Join(lastCall.endpoint))
           /\ IF lastCall.reply.kind = "network"
              THEN lastCall.outcome.error = FetchTypeError
              ELSE /\ Carries(lastCall.outcome.error,
                              MethodVerb(lastCall.method))
                   /\ Carries(lastCall.outcome.error, lastCall.reply.status)

C20_Witness ==
    /\ lastCall.op = "apiResult"
    /\ lastCall.method = "delete"
    /\ lastCall.reply = NotFound
    /\ lastCall.outcome.threw

\* C25: a handleRoute invocation for one of the public paths /, /login and
\* /register renders the path's view without a redirect while no principal is
\* present, and redirects to /dashboard while a principal is present.
C25_PublicRoutesRedirectWhenLoggedIn ==
    (Routed /\ lastCall.path \in {"/", "/login", "/register"})
        => /\ lastCall.user = JNull
                => /\ lastCall.redirect = NoRedirect
                   /\ lastCall.view = routes[lastCall.path]
           /\ IsPrincipal(lastCall.user)
                => /\ lastCall.redirect = <<"/dashboard">>
                   /\ hash = <<"/dashboard">>

\* C26: whenever a step invokes Sidebar() (app.js after Store.init, or the
\* view that handleRoute renders) the Session Store holds a principal.
C26_SidebarNeedsPrincipal ==
    /\ (lastCall.op = "load" /\ appContent = "Sidebar")
          => StoreGetUser(user) /= JNull
    /\ (Routed /\ lastCall.view \in SidebarViews)
          => (StoreGetUser(lastCall.user) /= JNull
                /\ StoreGetUser(user) /= JNull)

C26_Witness ==
    /\ Routed
    /\ lastCall.view = "PaymentsView"
    /\ user = UserP
    /\ "paymentsTableContainer" \in DOMAIN dom

\* C28: when a handleRoute invocation redirects, the invocation for the
\* path it redirected to, under the same Session Store state, renders a view
\* and redirects no further: at most one redirect, and no redirect loop.
C28_AtMostOneRedirect ==
    (Routed /\ lastCall.redirect /= NoRedirect)
        => /\ hash = lastCall.redirect
           /\ handleRoute(lastCall.redirect, lastCall.user).redirect
                 = NoRedirect
           /\ handleRoute(lastCall.redirect, lastCall.user).view /= NoView

C28_Witness ==
    /\ Routed
    /\ lastCall.redirect = <<"/not-found">>
    /\ hash = <<"/not-found">>
    /\ pending >= 1

\* Some record of collection db has email e, ignoring letter case
HasEmail(db, e) ==
    \E i \in 1..Len(db) : toLowerCase(db[i].props["email"]) = toLowerCase(e)

\* Some record of collection db has id idText
HasId(db, idText) == \E i \in 1..Len(db) : db[i].props["id"] = idText

ReplyOk == \A i \in DOMAIN lastCall.reply : lastCall.reply[i] = "ok"

\* C21: when window.deleteStudent's DELETE /students/<id> has succeeded, the
\* read-all of /students that its loadStudents() issues next returns no record
\* with that id, and the table it renders has no row for it.
C21_DeletedIdAbsentFromNextRead ==
    (lastCall.op = "deleteReloaded" /\ ReplyOk)
        => /\ ~HasId(students, lastCall.task.id)
           /\ ("studentsTableContainer" \in DOMAIN dom
                 /\ dom["studentsTableContainer"].kind = "rows")
                => \A i \in DOMAIN dom["studentsTableContainer"].ids :
                      dom["studentsTableContainer"].ids[i] /= lastCall.task.id

C21_Witness ==
    /\ lastCall.op = "deleteReloaded"
    /\ ReplyOk
    /\ lastCall.task.id = "5"
    /\ lastCall.alert = MsgDeleted
    /\ dom["studentsTableContainer"].kind = "rows"
    /\ dom["studentsTableContainer"].ids = <<"a7">>

ViewOps ==
    {"loadDashboardData", "loadStudents", "loadPayments", "createStudentsRead",
     "createUsersRead", "createPosted", "editStudentsRead", "editUsersRead",
     "editPut", "deleteReturned", "deleteReloaded"}

\* C22: every step of a view in which an API Client call failed (dashboard
\* load, students list load, payments load, student create, edit, delete)
\* shows an alert; none is only logged.
C22_ApiFailuresAreAlerted ==
    (lastCall.op \in ViewOps /\ ~ReplyOk) => lastCall.alert /= NoAlert

\* C23: handleCreateStudent ends with the duplicate alert, issuing no POST,
\* when its read of /students or of /users returns a record with the submitted
\* email (ignoring letter case); when both reads succeed and neither returns
\* one it issues POST /students, and the POST adds exactly one record.
C23_CreateChecksEmailBeforePost ==
    /\ (lastCall.op = "createStudentsRead" /\ ReplyOk)
          => IF HasEmail(students, lastCall.task.email)
             THEN /\ lastCall.next = "done"
                  /\ lastCall.alert = MsgStudentEmailTaken
             ELSE lastCall.next = "users"
    /\ (lastCall.op = "createUsersRead" /\ ReplyOk)
          => IF HasEmail(users, lastCall.task.email)
             THEN /\ lastCall.next = "done"
                  /\ lastCall.alert = MsgEmailOfUser
             ELSE /\ lastCall.next = "post"
                  /\ [lastCall.task EXCEPT !.pc = "post"] \in tasks
    /\ lastCall.op \in {"createStudentsRead", "createUsersRead"}
          => students = lastCall.studentsBefore
    /\ lastCall.op = "createPosted"
          => IF ReplyOk
             THEN /\ Len(students) = Len(lastCall.studentsBefore) + 1
                  /\ SubSeq(students, 1, Len(students) - 1)
                        = lastCall.studentsBefore
                  /\ students[Len(students)].props["email"]
                        = lastCall.task.email
             ELSE students = lastCall.studentsBefore

C23_Witness ==
    /\ lastCall.op = "createUsersRead"
    /\ ReplyOk
    /\ lastCall.task.email = "Admin@crudops.com"
    /\ lastCall.alert = MsgEmailOfUser
    /\ students = SeedStudents

\* C24: when the edit form of student id is submitted with that student's own
\* email and no other student holds that email, handleEditStudent does not
\* reject it as a duplicate after its read of /students: it goes on to the
\* read of /users (and from there to PUT /students/id).
C24_EditExcludesEditedStudent ==
    (/\ lastCall.op = "editStudentsRead"
     /\ ReplyOk
     /\ \E i \in 1..Len(students) :
           /\ students[i].props["id"] = ToText(lastCall.task.id)
           /\ students[i].props["email"] = lastCall.task.email
           /\ \A j \in 1..Len(students) :
                 j /= i => toLowerCase(students[j].props["email"])
                             /= toLowerCase(lastCall.task.email))
        => /\ lastCall.next = "users"
           /\ lastCall.alert = NoAlert

\* C27: loadDashboardData changes neither Store list nor any element of the
\* page when one of its two reads fails, and stores both lists when both
\* succeed.
C27_DashboardLoadAllOrNothing ==
    lastCall.op = "loadDashboardData"
        => IF ReplyOk
           THEN lists = [students |-> JArr(lastCall.studentsBefore),
                         payments |-> JArr(SeedPayments)]
           ELSE /\ lists = lastCall.listsBefore
                /\ dom = lastCall.domBefore

C27_Witness ==
    /\ lastCall.op = "loadDashboardData"
    /\ lastCall.reply = <<"ok", "status">>
    /\ lastCall.displayed = "DashboardView"
    /\ dom["studentsCount"] = Text("0")
    /\ lists = EmptyLists

\* C29: the backend never holds two student records whose emails are equal
\* ignoring letter case.
C29_NoDuplicateStudentEmails ==
    \A i, j \in 1..Len(students) :
        i /= j => toLowerCase(students[i].props["email"])
                    /= toLowerCase(students[j].props["email"])

\* The view whose timer starts a data load
OriginView(op) ==
    IF op = "loadStudents" THEN "StudentsListView" ELSE "DashboardView"

\* C30: a loadStudents or loadDashboardData whose reply arrives while the
\* router displays another view than the one that started it changes no
\* element of the displayed view and lets no error escape.
C30_LateReplyLeavesNewViewAlone ==
    (/\ lastCall.op \in {"loadStudents", "loadDashboardData"}
     /\ lastCall.displayed /= OriginView(lastCall.op))
        => /\ dom = lastCall.domBefore
           /\ ~lastCall.uncaught

====
